---- MODULE Spec2Model ----
(***************************************************************************)
(* Model of bot.py: a Telegram bot (aiogram 3 dispatcher, in-memory FSM)   *)
(* that keeps chats and their history in SQLite and relays text messages   *)
(* to an OpenAI-compatible streaming completion API.                       *)
(*                                                                         *)
(* Representation.                                                         *)
(*  - A text is a sequence of tokens.  A menu label or a command is one     *)
(*    token (the Russian labels are written as ASCII glosses); free text   *)
(*    is a sequence of one-character tokens, so that text[:30] and         *)
(*    len(delta) are computed on it.                                       *)
(*  - A provider model id is a sequence of tokens vendor "/" name ":free". *)
(*  - Callback data is the sequence of its "_"-separated parts.            *)
(*  - chat id 0 stands for None / a missing key of the FSM data, and the   *)
(*    empty sequence for a missing model key.                              *)
(*  - time.monotonic() is the variable clock, in ticks of half a second.   *)
(*  - datetime.now() is naive local wall time: neither strictly increasing *)
(*    nor monotonic, so every reading is an input of the action that       *)
(*    takes it.                                                            *)
(*  - Handlers run as concurrent tasks (Dispatcher.start_polling handles   *)
(*    every update in a task of its own), so a handler is atomic only up   *)
(*    to an await that really suspends (a network call); awaits on the     *)
(*    in-memory FSM storage do not suspend.                                *)
(*  - Only text messages are inputs (photos and documents are not).        *)
(***************************************************************************)
EXTENDS Integers, Sequences, FiniteSets, TLC

VARIABLES
    chats,      \* table chats: chat_id -> [user_id, model, title]
    chatSeq,    \* AUTOINCREMENT counter of chats.chat_id
    history,    \* table history in message_id order: rows [chat_id, role, content, timestamp]
    favorites,  \* table favorites: rows [user_id, model_id]
    fsmState,   \* FSMContext state of every user
    fsmData,    \* FSMContext data of every user
    keyboards,  \* chat ids whose inline buttons a user has been shown
    MODELS,     \* the model catalog: keys of the dict in insertion order
    updater,    \* position of the model_updater task
    lastFetch,  \* what the most recent completed fetch of the provider returned
    relay,      \* the handle_message execution of every user (locals and position)
    obs,        \* what the current or last handle_message execution of a user did
    clock,      \* time.monotonic()
    last        \* the update the dispatcher handled last, where a specification records it

botVars == <<chats, chatSeq, history, favorites, fsmState, fsmData, keyboards, MODELS, updater,
             lastFetch, relay, obs, clock>>

vars == <<botVars, last>>

dbVars == <<chats, chatSeq, history, favorites>>
fsmVars == <<fsmState, fsmData>>
catalogVars == <<MODELS, updater, lastFetch>>
relayVars == <<relay, obs>>

-----------------------------------------------------------------------------
(* Bounds of the model *)

MaxChats == 2
MaxHistory == 2
MaxChatsMenu == 1
MaxHistoryStream == 3
MaxChunks == 2
MaxClock == 4
MaxStamp == 2
MaxHistoryClock == 5
MaxHistoryDeep == 12
MaxChatsFlow == 1
MaxHistoryFlow == 1
MaxHistoryDelete == 4
MaxHistoryCancel == 4

(* Program constants *)

HISTORY_LIMIT == 10
EXPORT_LIMIT == 100
TITLE_LEN == 30
EDIT_INTERVAL == 3
SMALL_DELTA == 3

-----------------------------------------------------------------------------
(* Texts *)

Min(a, b) == IF a < b THEN a ELSE b

CmdStart == <<"/start">>
CmdMenu == <<"/menu">>
BtnNewChat == <<"[+] Novyj chat">>
BtnMyChats == <<"Moi chaty">>
BtnCurrentChat == <<"Tekushhij chat">>
BtnExport == <<"Eksport istorii">>
BtnSettings == <<"Nastrojki">>
BtnBack == <<"Nazad">>
MultimodalSuffix == " [img]"
Cursor == "*"

LongText == [i \in 1..(TITLE_LEN + 1) |-> IF i <= TITLE_LEN THEN "a" ELSE "b"]

\* a variant of text[:n] that does not cut
WholeText(text, n) == text

\* text[:n]
Prefix(text, n) == SubSeq(text, 1, Min(n, Len(text)))

\* text.replace(token, "")
RemoveToken(text, token) == SelectSeq(text, LAMBDA t : t # token)

Range(s) == {s[i] : i \in 1..Len(s)}

Reverse(s) == [i \in 1..Len(s) |-> s[Len(s) + 1 - i]]

-----------------------------------------------------------------------------
(* The model catalog *)

NoModel == <<>>
FreeTag == ":free"

M_A == <<"meta", "/", "llama", FreeTag>>
M_B == <<"other", "/", "llama", FreeTag>>
M_P == <<"openai", "/", "gpt-4", "o">>
M_X == <<"x", "/", "beta", FreeTag, "-old">>

\* what client.models.list() may return
ProviderLists == {<<M_A, M_P>>, <<M_B, M_X, M_A>>, <<M_P>>}

\* model.id.endswith(":free")
EndsWithFree(id) == Len(id) > 0 /\ id[Len(id)] = FreeTag

\* [model.id for model in response.data if model.id.endswith(":free")]
FreeOnly(list) == SelectSeq(list, EndsWithFree)

\* model.split('/')[-1].replace(':free', '')
LastSlash(id) ==
    IF \E i \in 1..Len(id) : id[i] = "/"
    THEN CHOOSE i \in 1..Len(id) : id[i] = "/" /\ \A j \in (i + 1)..Len(id) : id[j] # "/"
    ELSE 0

ShortName(id) == RemoveToken(SubSeq(id, LastSlash(id) + 1, Len(id)), FreeTag)

\* any(ind in short_name.lower() for ind in MULTIMODAL_INDICATORS)
IsMultimodal(name) == \E i \in 1..Len(name) : name[i] \in {"gpt-4", "multimodal", "vision"}

ModelEntry(id) == [name |-> ShortName(id), multimodal |-> IsMultimodal(ShortName(id))]

\* MODELS[model] = ... for every model of the list, into a dict that starts
\* as `start`: a key already present keeps its place.
RECURSIVE FillModels(_, _)
FillModels(start, list) ==
    IF list = <<>> THEN start
    ELSE FillModels(IF Head(list) \in Range(start) THEN start ELSE Append(start, Head(list)),
                    Tail(list))

\* a variant of update_models without MODELS = {}: new keys join the old ones
FillModelsKeepingOld(old, available) == FillModels(old, available)

\* update_models after the await: MODELS = {} and the loop, with no await between
RebuildModels(old, available) == FillModels(<<>>, available)

\* the loop of model_selected: the first key whose name is the text
FindModel(catalog, selected_text) ==
    LET hits == {i \in 1..Len(catalog) : ModelEntry(catalog[i]).name = selected_text}
    IN IF hits = {} THEN NoModel
       ELSE catalog[CHOOSE i \in hits : \A j \in hits : i <= j]

-----------------------------------------------------------------------------
(* The database *)

ChatRow(user_id, model, title) == [user_id |-> user_id, model |-> model, title |-> title]

\* Database.get_chats: the ids of the chats of a user (the rows are looked
\* up by id only, the order of the list is not read)
get_chats(user_id) == {c \in DOMAIN chats : chats[c].user_id = user_id}

HistoryRow(chat_id, role, content, timestamp) ==
    [chat_id |-> chat_id, role |-> role, content |-> content, timestamp |-> timestamp]

\* a variant of add_message that deletes the rows of the chat older than
\* the most recent HISTORY_LIMIT
add_message_trimming(hist, chat_id, role, content, timestamp) ==
    LET all == Append(hist, HistoryRow(chat_id, role, content, timestamp))
        mine == {i \in 1..Len(all) : all[i].chat_id = chat_id}
        keep == {i \in mine : Cardinality({j \in mine : j > i}) < HISTORY_LIMIT}
        K == {i \in 1..Len(all) : i \notin mine \/ i \in keep}
    IN [n \in 1..Cardinality(K) |->
          all[CHOOSE i \in K : Cardinality({j \in K : j < i}) = n - 1]]

\* Database.add_message
add_message(hist, chat_id, role, content, timestamp) ==
    Append(hist, HistoryRow(chat_id, role, content, timestamp))

\* ORDER BY timestamp DESC: every order of the rows S that is descending in
\* the timestamp; rows of equal timestamp come in an order SQL leaves open
RECURSIVE OrdersDesc(_, _)
OrdersDesc(hist, S) ==
    IF S = {} THEN {<<>>}
    ELSE UNION {{<<i>> \o rest : rest \in OrdersDesc(hist, S \ {i})} :
                i \in {j \in S : \A k \in S : hist[j].timestamp >= hist[k].timestamp}}

Message(row) == [role |-> row.role, content |-> row.content]

\* Database.get_history: what the call may return
get_history(hist, chat_id, limit) ==
    LET S == {i \in 1..Len(hist) : hist[i].chat_id = chat_id}
    IN {LET result == Prefix(order, limit)
        IN [n \in 1..Len(result) |-> Message(hist[Reverse(result)[n]])] :
        order \in OrdersDesc(hist, S)}

\* a variant of Database.delete_chat without the DELETE on history
delete_chat_row_only(chat_id) ==
    /\ chats' = [c \in DOMAIN chats \ {chat_id} |-> chats[c]]
    /\ history' = history

\* Database.delete_chat
delete_chat_rows(chat_id) ==
    /\ chats' = [c \in DOMAIN chats \ {chat_id} |-> chats[c]]
    /\ history' = SelectSeq(history, LAMBDA r : r.chat_id # chat_id)

\* Database.delete_all_chats
delete_all_chats_rows(user_id) ==
    /\ history' = SelectSeq(history, LAMBDA r : r.chat_id \notin get_chats(user_id))
    /\ chats' = [c \in DOMAIN chats \ get_chats(user_id) |-> chats[c]]

FavoriteRow(user_id, model_id) == [user_id |-> user_id, model_id |-> model_id]

\* Database.get_favorites: the model ids of the rows of the user
get_favorites(fav, user_id) ==
    {fav[i].model_id : i \in {j \in 1..Len(fav) : fav[j].user_id = user_id}}

\* Database.add_favorite: INSERT OR IGNORE under PRIMARY KEY (user_id, model_id)
add_favorite(fav, user_id, model_id) ==
    IF \E i \in 1..Len(fav) : fav[i] = FavoriteRow(user_id, model_id)
    THEN fav
    ELSE Append(fav, FavoriteRow(user_id, model_id))

\* a variant of remove_favorite whose WHERE names the user only
remove_favorites_of_user(fav, user_id, model_id) ==
    SelectSeq(fav, LAMBDA r : r.user_id # user_id)

\* Database.remove_favorite
remove_favorite(fav, user_id, model_id) ==
    SelectSeq(fav, LAMBDA r : r # FavoriteRow(user_id, model_id))

-----------------------------------------------------------------------------
(* The dispatcher: the first registered handler whose filters pass handles *)
(* the update; what the handler returns does not pass it on.               *)

NoState == "None"
ChatStates == {"choosing_model", "naming_chat", "renaming_chat", "waiting_for_message"}

MessageHandlers ==
    <<"cmd_start", "cmd_menu", "create_new_chat", "model_selected", "chat_named",
      "show_chats", "show_current_chat", "export_history", "settings_menu",
      "handle_message", "rename_chat_finish">>

\* the filters of the decorator of a message handler, on a text message
MessageFilter(handler, text, state) ==
    CASE handler = "cmd_start" -> text = CmdStart
      [] handler = "cmd_menu" -> text = CmdMenu
      [] handler = "create_new_chat" -> text = BtnNewChat
      [] handler = "model_selected" -> state = "choosing_model"
      [] handler = "chat_named" -> state = "naming_chat"
      [] handler = "show_chats" -> text = BtnMyChats
      [] handler = "show_current_chat" -> text = BtnCurrentChat
      [] handler = "export_history" -> text = BtnExport
      [] handler = "settings_menu" -> text = BtnSettings
      [] handler = "handle_message" -> Len(text) > 0
      [] handler = "rename_chat_finish" -> state = "renaming_chat"

FirstPassing(handlers, Passes(_)) ==
    LET hits == {i \in 1..Len(handlers) : Passes(handlers[i])}
    IN IF hits = {} THEN "UNHANDLED"
       ELSE handlers[CHOOSE i \in hits : \A j \in hits : i <= j]

RouteMessage(text, state) ==
    FirstPassing(MessageHandlers, LAMBDA h : MessageFilter(h, text, state))

CallbackHandlers ==
    <<"refresh_chats", "select_chat", "delete_chat", "delete_all_chats",
      "rename_chat_start", "settings_back", "settings_favorites", "toggle_favorite">>

DeleteAllData == <<"delete", "all", "chats">>

\* data.startswith(prefix + "_"), the prefix given by its parts
StartsWith(data, prefix) ==
    Len(data) > Len(prefix) /\ SubSeq(data, 1, Len(prefix)) = prefix

CallbackFilter(handler, data) ==
    CASE handler = "refresh_chats" -> data = <<"refresh", "chats">>
      [] handler = "select_chat" -> StartsWith(data, <<"chat">>)
      [] handler = "delete_chat" -> StartsWith(data, <<"delete">>)
      [] handler = "delete_all_chats" -> data = DeleteAllData
      [] handler = "rename_chat_start" -> StartsWith(data, <<"rename">>)
      [] handler = "settings_back" -> data = <<"settings", "back">>
      [] handler = "settings_favorites" -> data = <<"settings", "favorites">>
      [] handler = "toggle_favorite" -> StartsWith(data, <<"toggle", "fav">>)

RouteCallback(data) ==
    FirstPassing(CallbackHandlers, LAMBDA h : CallbackFilter(h, data))

Digits == <<"1", "2", "3", "4", "5", "6", "7", "8", "9">>

\* f"{chat_id}"
Str(n) == Digits[n]

\* int(s); -1 stands for ValueError
ParseInt(s) == IF \E n \in 1..Len(Digits) : Digits[n] = s
               THEN CHOOSE n \in 1..Len(Digits) : Digits[n] = s
               ELSE -1

\* the callback data of the buttons of show_chats for the chats ids
ChatButtons(ids) ==
    UNION {{<<"chat", Str(c)>>, <<"rename", Str(c)>>, <<"delete", Str(c)>>} : c \in ids}
    \cup (IF ids = {} THEN {} ELSE {DeleteAllData})

-----------------------------------------------------------------------------
(* The FSM context *)

NoData == [selected_model |-> NoModel, current_chat |-> 0, renaming_chat |-> 0]

set_state(u, s) == fsmState' = [fsmState EXCEPT ![u] = s]

\* state.clear(): the state and the data
clear(u) ==
    /\ fsmState' = [fsmState EXCEPT ![u] = NoState]
    /\ fsmData' = [fsmData EXCEPT ![u] = NoData]

-----------------------------------------------------------------------------
(* The except clauses of handle_message *)

TextSelectFirst == "Snachala vyberite ili sozdajte chat!"
TextNotFound == "Chat ne najden"
TextConnection == "Problemy s podkljucheniem k API"
TextRateLimit == "Prevyshen limit zaprosov, poprobujte pozzhe"
TextApi == "Oshibka API, poprobujte eshhe raz"
TextGeneric == "Proizoshla oshibka pri obrabotke zaprosa"

\* the classes of an exception (itself and its bases)
Mro(e) ==
    CASE e = "APITimeoutError" -> {"APITimeoutError", "APIConnectionError", "APIError", "Exception"}
      [] e = "APIConnectionError" -> {"APIConnectionError", "APIError", "Exception"}
      [] e = "RateLimitError" -> {"RateLimitError", "APIStatusError", "APIError", "Exception"}
      [] e = "APIStatusError" -> {"APIStatusError", "APIError", "Exception"}
      [] e = "APIError" -> {"APIError", "Exception"}
      [] OTHER -> {e, "Exception"}

\* what the provider call or the stream may raise
ProviderErrors == {"APIConnectionError", "RateLimitError", "APIStatusError", "ValueError"}

\* what edit_text may raise
EditErrors == {"TelegramRetryAfter", "TelegramBadRequest"}

\* a variant of the except clauses with APIError tried first
ExceptClausesApiFirst ==
    <<[class |-> "APIError", text |-> TextApi],
      [class |-> "APIConnectionError", text |-> TextConnection],
      [class |-> "RateLimitError", text |-> TextRateLimit],
      [class |-> "Exception", text |-> TextGeneric]>>

ExceptClauses ==
    <<[class |-> "APIConnectionError", text |-> TextConnection],
      [class |-> "RateLimitError", text |-> TextRateLimit],
      [class |-> "APIError", text |-> TextApi],
      [class |-> "Exception", text |-> TextGeneric]>>

\* the text of the first clause that catches e; "" when none does
Caught(e) ==
    LET hits == {i \in 1..Len(ExceptClauses) : ExceptClauses[i].class \in Mro(e)}
    IN IF hits = {} THEN ""
       ELSE ExceptClauses[CHOOSE i \in hits : \A j \in hits : i <= j].text

-----------------------------------------------------------------------------
(* State of a handle_message execution *)

IdleRelay ==
    [pc |-> "idle", chat_id |-> 0, content |-> <<>>, model_key |-> NoModel,
     messages |-> <<>>, full_answer |-> <<>>, last_edit_time |-> 0, now |-> 0]

NoObs ==
    [phase |-> "none",      \* none, running or done
     statics |-> <<>>,      \* the static texts the handler answered with
     raised |-> "",         \* the exception raised inside the try block
     raisedBy |-> "",       \* create, stream or final_edit
     propagated |-> FALSE,  \* no except clause caught it
     userRows |-> 0,        \* user rows the handler stored
     stored |-> 0,          \* assistant rows the handler stored
     chunks |-> 0,          \* chunks the stream delivered
     answer |-> <<>>,       \* the non-empty deltas of the chunks, concatenated in arrival order
     delta |-> <<>>,        \* the delta of the last chunk
     at |-> 0,              \* the time the last chunk arrived
     since |-> 0,           \* the time the last successful edit before it was issued
     attempted |-> FALSE,   \* the last chunk caused an edit
     editText |-> <<>>,     \* the text of the last edit
     editResult |-> "",     \* ok, or the exception of the last edit
     editCalls |-> 0,       \* calls of edit_text for the last chunk
     okEditAt |-> 0]        \* the time the last successful edit was issued

Busy(u) == relay[u].pc # "idle"

\* no update has been handled
NoUpdate ==
    [kind |-> "none", user |-> "", input |-> <<>>, state |-> NoState,
     data |-> NoData, owned |-> {}, handler |-> ""]

-----------------------------------------------------------------------------
(* Message handlers *)

cmd_start(u) == UNCHANGED botVars

cmd_menu(u) == UNCHANGED botVars

create_new_chat(u) ==
    /\ IF Len(MODELS) = 0
       THEN UNCHANGED fsmState
       ELSE set_state(u, "choosing_model")
    /\ UNCHANGED <<dbVars, fsmData, keyboards, catalogVars, relayVars, clock>>

model_selected(u, text) ==
    /\ IF text = BtnBack
       THEN clear(u)
       ELSE LET selected_text == RemoveToken(text, MultimodalSuffix)
                selected_model_key == FindModel(MODELS, selected_text)
            IN IF selected_model_key # NoModel
               THEN /\ fsmData' = [fsmData EXCEPT ![u].selected_model = selected_model_key]
                    /\ set_state(u, "naming_chat")
               ELSE UNCHANGED fsmVars
    /\ UNCHANGED <<dbVars, keyboards, catalogVars, relayVars, clock>>

\* Database.create_chat; the new chat_id is chatSeq'
create_chat(user_id, model, title) ==
    /\ chatSeq' = chatSeq + 1
    /\ chats' = (chatSeq + 1 :> ChatRow(user_id, model, title)) @@ chats

chat_named(u, text) ==
    LET model_key == fsmData[u].selected_model
        title == Prefix(text, TITLE_LEN)
    IN IF model_key = NoModel
       THEN UNCHANGED botVars    \* KeyError
       ELSE /\ create_chat(u, model_key, title)
            /\ fsmData' = [fsmData EXCEPT ![u].current_chat = chatSeq']
            /\ set_state(u, "waiting_for_message")
            /\ UNCHANGED <<history, favorites, keyboards, catalogVars, relayVars, clock>>

show_chats(u) ==
    /\ keyboards' = [keyboards EXCEPT ![u] = @ \cup get_chats(u)]
    /\ UNCHANGED <<dbVars, fsmVars, catalogVars, relayVars, clock>>

show_current_chat(u) == UNCHANGED botVars

export_history(u) == UNCHANGED botVars

settings_menu(u) == UNCHANGED botVars

\* handle_message up to its first await that suspends
handle_message(u, text, timestamp) ==
    LET chat_id == fsmData[u].current_chat
        content == text
    IN IF fsmState[u] # "waiting_for_message"
       THEN UNCHANGED botVars
       ELSE /\ ~Busy(u)
            /\ IF chat_id = 0
               THEN /\ obs' = [obs EXCEPT ![u] =
                                 [NoObs EXCEPT !.phase = "done", !.statics = <<TextSelectFirst>>]]
                    /\ UNCHANGED <<history, relay>>
               ELSE /\ history' = add_message(history, chat_id, "user", content, timestamp)
                    /\ IF chat_id \notin get_chats(u)
                       THEN /\ obs' = [obs EXCEPT ![u] =
                                         [NoObs EXCEPT !.phase = "done", !.userRows = 1,
                                                       !.statics = <<TextNotFound>>]]
                            /\ UNCHANGED relay
                       ELSE /\ \E hist \in get_history(history', chat_id, HISTORY_LIMIT) :
                                 relay' = [relay EXCEPT ![u] =
                                   [IdleRelay EXCEPT
                                      !.pc = "placeholder",
                                      !.chat_id = chat_id,
                                      !.content = content,
                                      !.model_key = chats[chat_id].model,
                                      !.messages = hist \o <<[role |-> "user", content |-> content]>>]]
                            /\ obs' = [obs EXCEPT ![u] =
                                         [NoObs EXCEPT !.phase = "running", !.userRows = 1]]
            /\ UNCHANGED <<chats, chatSeq, favorites, fsmVars, keyboards, catalogVars, clock>>

\* Database.rename_chat
rename_chat(chat_id, new_title) ==
    chats' = [c \in DOMAIN chats |->
                IF c = chat_id THEN [chats[c] EXCEPT !.title = new_title] ELSE chats[c]]

rename_chat_finish(u, text) ==
    LET chat_id == fsmData[u].renaming_chat
        new_title == Prefix(text, TITLE_LEN)
    IN IF chat_id = 0
       THEN UNCHANGED botVars    \* KeyError
       ELSE /\ rename_chat(chat_id, new_title)
            /\ clear(u)
            /\ UNCHANGED <<chatSeq, history, favorites, keyboards, catalogVars, relayVars, clock>>

\* a text message of user u: the dispatcher calls the handler the message routes to
OnMessage(u, text, timestamp) ==
    LET handler == RouteMessage(text, fsmState[u])
    IN CASE handler = "cmd_start" -> cmd_start(u)
         [] handler = "cmd_menu" -> cmd_menu(u)
         [] handler = "create_new_chat" -> create_new_chat(u)
         [] handler = "model_selected" -> model_selected(u, text)
         [] handler = "chat_named" -> chat_named(u, text)
         [] handler = "show_chats" -> show_chats(u)
         [] handler = "show_current_chat" -> show_current_chat(u)
         [] handler = "export_history" -> export_history(u)
         [] handler = "settings_menu" -> settings_menu(u)
         [] handler = "handle_message" -> handle_message(u, text, timestamp)
         [] handler = "rename_chat_finish" -> rename_chat_finish(u, text)
         [] OTHER -> UNCHANGED botVars

-----------------------------------------------------------------------------
(* Callback handlers *)

\* a variant of select_chat without state.update_data(current_chat=chat_id)
select_chat_state_only(u, data) ==
    LET chat_id == ParseInt(data[2])
    IN IF chat_id = -1
       THEN UNCHANGED botVars
       ELSE /\ set_state(u, "waiting_for_message")
            /\ UNCHANGED <<dbVars, fsmData, keyboards, catalogVars, relayVars, clock>>

select_chat(u, data) ==
    LET chat_id == ParseInt(data[2])
    IN IF chat_id = -1
       THEN UNCHANGED botVars    \* ValueError
       ELSE /\ fsmData' = [fsmData EXCEPT ![u].current_chat = chat_id]
            /\ set_state(u, "waiting_for_message")
            /\ UNCHANGED <<dbVars, keyboards, catalogVars, relayVars, clock>>

delete_chat(u, data) ==
    IF data = DeleteAllData
    THEN UNCHANGED botVars
    ELSE LET chat_id == ParseInt(data[2])
         IN IF chat_id = -1
            THEN UNCHANGED botVars    \* ValueError, caught
            ELSE /\ delete_chat_rows(chat_id)
                 /\ UNCHANGED <<chatSeq, favorites, fsmVars, keyboards, catalogVars, relayVars, clock>>

delete_all_chats(u) ==
    /\ delete_all_chats_rows(u)
    /\ UNCHANGED <<chatSeq, favorites, fsmVars, keyboards, catalogVars, relayVars, clock>>

rename_chat_start(u, data) ==
    LET chat_id == ParseInt(data[2])
    IN IF chat_id = -1
       THEN UNCHANGED botVars    \* ValueError
       ELSE /\ set_state(u, "renaming_chat")
            /\ fsmData' = [fsmData EXCEPT ![u].renaming_chat = chat_id]
            /\ UNCHANGED <<dbVars, keyboards, catalogVars, relayVars, clock>>

ToggleFav == <<"toggle", "fav">>

\* the callback data of the button of favorite_models_keyboard for a model
ToggleData(model_key) == ToggleFav \o model_key

\* toggle_favorite on the rows of the table: callback.data[len("toggle_fav_"):]
\* is looked up in get_favorites and removed or added
toggle_rows(fav, user_id, data) ==
    LET model_key == SubSeq(data, Len(ToggleFav) + 1, Len(data))
    IN IF model_key \in get_favorites(fav, user_id)
       THEN remove_favorite(fav, user_id, model_key)
       ELSE add_favorite(fav, user_id, model_key)

toggle_favorite(u, data) ==
    /\ favorites' = toggle_rows(favorites, u, data)
    /\ UNCHANGED <<chats, chatSeq, history, fsmVars, keyboards, catalogVars, relayVars, clock>>

\* user u presses an inline button: the dispatcher calls the handler the data routes to
OnCallback(u, data) ==
    LET handler == RouteCallback(data)
    IN CASE handler = "select_chat" -> select_chat(u, data)
         [] handler = "delete_chat" -> delete_chat(u, data)
         [] handler = "delete_all_chats" -> delete_all_chats(u)
         [] handler = "rename_chat_start" -> rename_chat_start(u, data)
         [] handler = "toggle_favorite" -> toggle_favorite(u, data)
         [] OTHER -> UNCHANGED botVars

\* the record of an update of user u and of the handler it routes to
Handled(kind, u, input) ==
    [kind |-> kind, user |-> u, input |-> input, state |-> fsmState[u],
     data |-> fsmData[u], owned |-> get_chats(u),
     handler |-> IF kind = "message" THEN RouteMessage(input, fsmState[u])
                 ELSE RouteCallback(input)]

-----------------------------------------------------------------------------
(* handle_message after its first await: one action per await that suspends *)

\* an exception e leaves the try block: the first except clause that
\* catches it answers with its text, and the handler returns
Except(u, e, by) ==
    /\ relay' = [relay EXCEPT ![u] = IdleRelay]
    /\ obs' = [obs EXCEPT ![u].phase = "done",
                          ![u].raised = e,
                          ![u].raisedBy = by,
                          ![u].propagated = (Caught(e) = ""),
                          ![u].statics = IF Caught(e) = "" THEN @ ELSE Append(@, Caught(e))]

\* sent_message = await message.answer(...); full_answer = ""; last_edit_time = time.monotonic()
HM_Placeholder(u) ==
    /\ relay[u].pc = "placeholder"
    /\ relay' = [relay EXCEPT ![u].pc = "create",
                              ![u].full_answer = <<>>,
                              ![u].last_edit_time = clock]
    /\ obs' = [obs EXCEPT ![u].okEditAt = clock]
    /\ UNCHANGED <<dbVars, fsmVars, keyboards, catalogVars, clock, last>>

\* stream = await client.chat.completions.create(...): the stream or an exception
HM_Create(u, result) ==
    /\ relay[u].pc = "create"
    /\ IF result = "stream"
       THEN /\ relay' = [relay EXCEPT ![u].pc = "stream"]
            /\ UNCHANGED obs
       ELSE Except(u, result, "create")
    /\ UNCHANGED <<dbVars, fsmVars, keyboards, catalogVars, clock, last>>

\* a variant of the condition with > for >=
EditDueStrict(now, last_edit_time, delta_content) ==
    now - last_edit_time > EDIT_INTERVAL \/ Len(delta_content) < SMALL_DELTA

\* now - last_edit_time >= edit_interval or len(delta_content) < 3
EditDue(now, last_edit_time, delta_content) ==
    now - last_edit_time >= EDIT_INTERVAL \/ Len(delta_content) < SMALL_DELTA

\* one iteration of async for, up to the await of edit_text
HM_Chunk(u, delta_content) ==
    /\ relay[u].pc = "stream"
    /\ IF delta_content # <<>>
       THEN LET now == clock
                due == EditDue(now, relay[u].last_edit_time, delta_content)
            IN /\ relay' = [relay EXCEPT ![u].full_answer = @ \o delta_content,
                                         ![u].now = now,
                                         ![u].pc = IF due THEN "edit" ELSE "stream"]
               /\ obs' = [obs EXCEPT ![u].chunks = @ + 1,
                                     ![u].answer = @ \o delta_content,
                                     ![u].delta = delta_content,
                                     ![u].at = clock,
                                     ![u].since = obs[u].okEditAt,
                                     ![u].attempted = due,
                                     ![u].editText =
                                         IF due THEN Append(relay[u].full_answer \o delta_content, Cursor)
                                         ELSE @,
                                     ![u].editResult = "",
                                     ![u].editCalls = IF due THEN 1 ELSE 0]
       ELSE /\ UNCHANGED relay
            /\ obs' = [obs EXCEPT ![u].chunks = @ + 1,
                                  ![u].delta = delta_content,
                                  ![u].at = clock,
                                  ![u].since = obs[u].okEditAt,
                                  ![u].attempted = FALSE,
                                  ![u].editResult = "",
                                  ![u].editCalls = 0]
    /\ UNCHANGED <<dbVars, fsmVars, keyboards, catalogVars, clock, last>>

\* await sent_message.edit_text(full_answer + cursor) ends: last_edit_time = now,
\* or the exception is logged; then the next iteration
HM_EditDone(u, result) ==
    /\ relay[u].pc = "edit"
    /\ relay' = [relay EXCEPT ![u].pc = "stream",
                              ![u].last_edit_time = IF result = "ok" THEN relay[u].now ELSE @]
    /\ obs' = [obs EXCEPT ![u].editResult = result,
                          ![u].okEditAt = IF result = "ok" THEN obs[u].at ELSE @]
    /\ UNCHANGED <<dbVars, fsmVars, keyboards, catalogVars, clock, last>>

\* the stream raises
HM_StreamError(u, e) ==
    /\ relay[u].pc = "stream"
    /\ Except(u, e, "stream")
    /\ UNCHANGED <<dbVars, fsmVars, keyboards, catalogVars, clock, last>>

\* the stream ends: the loop is left for await sent_message.edit_text(full_answer)
HM_StreamEnd(u) ==
    /\ relay[u].pc = "stream"
    /\ relay' = [relay EXCEPT ![u].pc = "final"]
    /\ obs' = [obs EXCEPT ![u].editText = relay[u].full_answer]
    /\ UNCHANGED <<dbVars, fsmVars, keyboards, catalogVars, clock, last>>

\* a variant of the end of the try block with db.add_message before the
\* final edit_text, so that the row is stored whatever the edit does
HM_FinalStoresFirst(u, result, timestamp) ==
    /\ relay[u].pc = "final"
    /\ history' = add_message(history, relay[u].chat_id, "assistant",
                              relay[u].full_answer, timestamp)
    /\ IF result = "ok"
       THEN /\ relay' = [relay EXCEPT ![u] = IdleRelay]
            /\ obs' = [obs EXCEPT ![u].phase = "done", ![u].stored = @ + 1]
       ELSE /\ relay' = [relay EXCEPT ![u] = IdleRelay]
            /\ obs' = [obs EXCEPT ![u].phase = "done",
                                  ![u].stored = @ + 1,
                                  ![u].raised = result,
                                  ![u].raisedBy = "final_edit",
                                  ![u].statics = Append(@, Caught(result))]
    /\ UNCHANGED <<chats, chatSeq, favorites, fsmVars, keyboards, catalogVars, clock, last>>

\* the final edit_text ends: db.add_message(chat_id, "assistant", full_answer),
\* or its exception leaves the try block
HM_Final(u, result, timestamp) ==
    /\ relay[u].pc = "final"
    /\ IF result = "ok"
       THEN /\ history' = add_message(history, relay[u].chat_id, "assistant",
                                      relay[u].full_answer, timestamp)
            /\ relay' = [relay EXCEPT ![u] = IdleRelay]
            /\ obs' = [obs EXCEPT ![u].phase = "done", ![u].stored = @ + 1]
       ELSE /\ Except(u, result, "final_edit")
            /\ UNCHANGED history
    /\ UNCHANGED <<chats, chatSeq, favorites, fsmVars, keyboards, catalogVars, clock, last>>

\* time.monotonic() advances
Tick ==
    /\ clock' = clock + 1
    /\ UNCHANGED <<dbVars, fsmVars, keyboards, catalogVars, relayVars, last>>

-----------------------------------------------------------------------------
(* model_updater *)

\* what get_available_models makes of the answer of the provider
Fetches == [ok : {TRUE}, data : ProviderLists] \cup {[ok |-> FALSE, data |-> <<>>]}

Available(fetch) == IF fetch.ok THEN FreeOnly(fetch.data) ELSE <<>>

\* update_models up to await client.models.list()
UpdateModelsCall ==
    /\ updater = "sleep"
    /\ updater' = "fetching"
    /\ UNCHANGED <<dbVars, fsmVars, keyboards, MODELS, lastFetch, relayVars, clock, last>>

\* update_models from the answer on, and asyncio.sleep
UpdateModelsDone(fetch) ==
    /\ updater = "fetching"
    /\ MODELS' = RebuildModels(MODELS, Available(fetch))
    /\ lastFetch' = fetch
    /\ updater' = "sleep"
    /\ UNCHANGED <<dbVars, fsmVars, keyboards, relayVars, clock, last>>

-----------------------------------------------------------------------------
(* Initial states *)

Users == {"u1", "u2"}

Hi == <<"h", "i">>
Llama == <<"llama">>
LlamaImg == <<"llama", MultimodalSuffix>>

\* chat_history.db as an earlier run of the bot may have left it
EmptyDb == [chats |-> <<>>, chatSeq |-> 0, history |-> <<>>, favorites |-> <<>>]

ChatOf(u) ==
    [chats |-> (1 :> ChatRow(u, M_A, Hi)), chatSeq |-> 1,
     history |-> <<HistoryRow(1, "user", Hi, 1)>>, favorites |-> <<>>]

\* chats of both users with a row each, and a favorite
Archive ==
    [chats |-> (1 :> ChatRow("u1", M_A, Hi)) @@ (2 :> ChatRow("u2", M_A, Hi)),
     chatSeq |-> 2,
     history |-> <<HistoryRow(1, "user", Hi, 1), HistoryRow(2, "user", Hi, 2)>>,
     favorites |-> <<FavoriteRow("u1", M_A)>>]

\* the state after the import of the module: the tables exist, with the
\* rows of earlier runs; asyncio.run(update_models()) has filled the
\* catalog; the FSM storage is empty and no update has been handled
InitWith(dbs, fetches) ==
    /\ \E db \in dbs :
         /\ chats = db.chats
         /\ chatSeq = db.chatSeq
         /\ history = db.history
         /\ favorites = db.favorites
    /\ fsmState = [u \in Users |-> NoState]
    /\ fsmData = [u \in Users |-> NoData]
    /\ keyboards = [u \in Users |-> {}]
    /\ \E fetch \in fetches :
         /\ MODELS = RebuildModels(<<>>, Available(fetch))
         /\ lastFetch = fetch
    /\ updater = "sleep"
    /\ relay = [u \in Users |-> IdleRelay]
    /\ obs = [u \in Users |-> NoObs]
    /\ clock = 0
    /\ last = NoUpdate

-----------------------------------------------------------------------------
(* Spec: chats and their management.  User u1 creates, lists, selects,     *)
(* renames and deletes chats and writes to them, beside a chat of user u2  *)
(* that an earlier run may have left; the provider answers with an empty   *)
(* stream.                                                                 *)

Init == InitWith({EmptyDb, ChatOf("u2")}, {[ok |-> TRUE, data |-> <<M_A, M_P>>]})

Texts == {BtnNewChat, BtnMyChats, Llama, Hi}

Next ==
    \/ \E text \in Texts :
         /\ OnMessage("u1", text, 1)
         /\ chatSeq' <= MaxChats
         /\ Len(history') <= MaxHistory
         /\ UNCHANGED last
    \/ \E data \in ChatButtons(keyboards["u1"]) : OnCallback("u1", data) /\ UNCHANGED last
    \/ HM_Placeholder("u1")
    \/ HM_Create("u1", "stream")
    \/ HM_StreamEnd("u1")
    \/ HM_Final("u1", "ok", 1)

Spec == Init /\ [][Next]_vars

-----------------------------------------------------------------------------
(* SpecStream: the relay.  User u1 selects the chat an earlier run left    *)
(* and writes to it; the provider streams deltas of every length around    *)
(* the threshold, or fails; edits succeed or fail; time passes while a     *)
(* turn is in progress; the wall clock advances between any two rows.      *)

InitStream == InitWith({ChatOf("u1")}, {[ok |-> TRUE, data |-> <<M_A, M_P>>]})

Deltas == {<<>>, <<"y", "y">>, <<"z", "z", "z">>}

NextStream ==
    \/ \E text \in {BtnMyChats, Hi} :
         /\ OnMessage("u1", text, Len(history) + 1)
         /\ Len(history') < MaxHistoryStream
         /\ UNCHANGED last
    \/ \E data \in {<<"chat", Str(c)>> : c \in keyboards["u1"]} :
         OnCallback("u1", data) /\ UNCHANGED last
    \/ HM_Placeholder("u1")
    \/ \E result \in {"stream"} \cup ProviderErrors : HM_Create("u1", result)
    \/ \E delta \in Deltas : obs["u1"].chunks < MaxChunks /\ HM_Chunk("u1", delta)
    \/ \E result \in {"ok"} \cup EditErrors : HM_EditDone("u1", result)
    \/ \E e \in ProviderErrors : HM_StreamError("u1", e)
    \/ HM_StreamEnd("u1")
    \/ \E result \in {"ok"} \cup EditErrors : HM_Final("u1", result, Len(history) + 1)
    \/ Busy("u1") /\ clock < MaxClock /\ Tick

SpecStream == InitStream /\ [][NextStream]_vars

-----------------------------------------------------------------------------
(* Claims about the relay, under SpecStream *)

Running(u) == obs[u].phase = "running"
Done(u) == obs[u].phase = "done"

\* C1: for every chunk of the stream with a non-empty delta, the delta is
\* appended to the accumulated answer and an edit of the placeholder to the
\* accumulated text plus the cursor is attempted if and only if the time
\* since the last successful edit was issued (at first: since the
\* placeholder was sent) is at least the edit interval or the delta is
\* shorter than 3 characters; a chunk with an empty delta causes no edit.
C1_EditIffDue ==
    \A u \in Users :
      Running(u) /\ obs[u].chunks > 0 /\ relay[u].pc \in {"stream", "edit"} =>
        /\ relay[u].full_answer = obs[u].answer
        /\ obs[u].attempted <=>
             /\ obs[u].delta # <<>>
             /\ \/ obs[u].at - obs[u].since >= EDIT_INTERVAL
                \/ Len(obs[u].delta) < SMALL_DELTA
        /\ obs[u].attempted /\ obs[u].editResult = "" =>
             /\ relay[u].pc = "edit"
             /\ obs[u].editText = Append(obs[u].answer, Cursor)
        /\ ~obs[u].attempted => relay[u].pc = "stream"

\* C1 witness: a second chunk with a delta of 3 characters arrives exactly
\* one edit interval after a successful edit was issued, and is shown
C1_Witness ==
    /\ relay["u1"].pc = "edit"
    /\ obs["u1"].chunks = 2
    /\ Len(obs["u1"].delta) = SMALL_DELTA
    /\ obs["u1"].since > 0
    /\ obs["u1"].at - obs["u1"].since = EDIT_INTERVAL

\* C2: when an edit of the placeholder fails because the chat transport
\* reports rate limiting, the relay waits and then calls that edit once
\* more: after the failed call it is in its backoff or in the second call,
\* not back in the loop over the stream.
C2_RetryAfterRateLimit ==
    \A u \in Users :
      Running(u) /\ obs[u].editResult = "TelegramRetryAfter" /\ obs[u].editCalls = 1 =>
        relay[u].pc \in {"backoff", "edit"}

\* the text the claim C3 gives a category of exception
CategoryText(e) ==
    CASE e \in {"APIConnectionError", "APITimeoutError"} -> TextConnection
      [] e = "RateLimitError" -> TextRateLimit
      [] e \in {"APIStatusError", "APIError"} -> TextApi
      [] OTHER -> TextGeneric

-----------------------------------------------------------------------------
(* SpecClock: the history under the wall clock.  User u1 selects the chat  *)
(* an earlier run left and writes to it; the provider answers with a       *)
(* stream of one delta; every row gets the reading of datetime.now() at    *)
(* its insertion, which may repeat or step back.                           *)

Stamps == 0..MaxStamp

NextClock ==
    \/ \E text \in {BtnMyChats, Hi}, timestamp \in Stamps :
         /\ OnMessage("u1", text, timestamp)
         /\ Len(history') < MaxHistoryClock
         /\ UNCHANGED last
    \/ \E data \in {<<"chat", Str(c)>> : c \in keyboards["u1"]} :
         OnCallback("u1", data) /\ UNCHANGED last
    \/ HM_Placeholder("u1")
    \/ HM_Create("u1", "stream")
    \/ obs["u1"].chunks < 1 /\ HM_Chunk("u1", <<"x">>)
    \/ HM_EditDone("u1", "ok")
    \/ HM_StreamEnd("u1")
    \/ \E timestamp \in Stamps : HM_Final("u1", "ok", timestamp)

SpecClock == InitStream /\ [][NextClock]_vars

\* the messages of the last n rows of a chat, in the order they were added
RowsOf(hist, chat_id) == SelectSeq(hist, LAMBDA r : r.chat_id = chat_id)

TrailingWindow(hist, chat_id, n) ==
    LET rows == RowsOf(hist, chat_id)
        k == Min(n, Len(rows))
    IN [i \in 1..k |-> Message(rows[Len(rows) - k + i])]

\* C4: get_history(chat, limit) returns exactly the min(limit, n) most
\* recently added messages of the chat, oldest first, for the limit of
\* handle_message (HISTORY_LIMIT) and the limit of export_history (100).
C4_HistoryIsTrailingWindow ==
    \A c \in DOMAIN chats : \A limit \in {HISTORY_LIMIT, EXPORT_LIMIT} :
      get_history(history, c, limit) = {TrailingWindow(history, c, limit)}

-----------------------------------------------------------------------------
(* SpecDeep: many turns in one chat.  User u1 selects the chat an earlier  *)
(* run left, writes to it turn after turn and may delete it; the provider  *)
(* answers with an empty stream or fails; the wall clock advances between  *)
(* any two rows.                                                           *)

InitDeep == InitWith({ChatOf("u1")}, {[ok |-> TRUE, data |-> <<M_A, M_P>>]})

NextDeep ==
    \/ \E text \in {BtnMyChats, Hi} :
         /\ OnMessage("u1", text, Len(history) + 1)
         /\ Len(history') < MaxHistoryDeep
         /\ UNCHANGED last
    \/ \E data \in {<<"chat", Str(c)>> : c \in keyboards["u1"]}
                   \cup {<<"delete", Str(c)>> : c \in keyboards["u1"]} :
         OnCallback("u1", data) /\ UNCHANGED last
    \/ HM_Placeholder("u1")
    \/ \E result \in {"stream", "RateLimitError"} : HM_Create("u1", result)
    \/ HM_StreamEnd("u1")
    \/ HM_Final("u1", "ok", Len(history) + 1)

SpecDeep == InitDeep /\ [][NextDeep]_vars

IsPrefix(s, t) == Len(s) <= Len(t) /\ SubSeq(t, 1, Len(s)) = s

\* C5 as stated: the stored history of a chat is kept to the most recent
\* HISTORY_LIMIT rows by deletion, so that when no turn of the chat is in
\* progress the chat has at most HISTORY_LIMIT rows.
C5_HistoryKeptToLimit ==
    \A c \in DOMAIN chats :
      (\A u \in Users : relay[u].chat_id # c) =>
        Len(RowsOf(history, c)) <= HISTORY_LIMIT

\* C5 as amended: storing a message only adds a row: in every step the
\* rows of a chat that is not deleted stay and at most new ones follow them
\* (rows go only with their chat, in delete_chat and delete_all_chats), so
\* the rows of a chat grow with every turn; HISTORY_LIMIT bounds the window
\* handle_message reads for the request, not what is stored.
C5_HistoryOnlyGrows ==
    [][/\ \A c \in DOMAIN chats \cap DOMAIN chats' :
            IsPrefix(RowsOf(history, c), RowsOf(history', c))
       /\ \A u \in Users :
            Len(relay'[u].messages) <= HISTORY_LIMIT + 1]_vars

\* C5 witness: a chat holds more rows than HISTORY_LIMIT while the request
\* of its next turn carries a full window
C5_Witness ==
    /\ 1 \in DOMAIN chats
    /\ Len(RowsOf(history, 1)) > HISTORY_LIMIT
    /\ relay["u1"].pc = "create"
    /\ Len(relay["u1"].messages) = HISTORY_LIMIT + 1

-----------------------------------------------------------------------------
(* SpecRoute: Spec with the relay stalled at its first await and with a    *)
(* record of the update handled last.                                      *)

NextRoute ==
    \/ \E text \in Texts :
         /\ OnMessage("u1", text, 1)
         /\ chatSeq' <= MaxChats
         /\ Len(history') <= MaxHistory
         /\ last' = Handled("message", "u1", text)
    \/ \E data \in ChatButtons(keyboards["u1"]) :
         /\ OnCallback("u1", data)
         /\ last' = Handled("callback", "u1", data)

SpecRoute == Init /\ [][NextRoute]_vars


\* C6: one inbound message is handled at a time: between the moment
\* handle_message stores the user row and the moment it stores the
\* assistant row or gives up, a step that is not a step of this handler
\* changes neither the chats table, nor the history table, nor the FSM
\* state or data of any user.
C6_OneHandlerAtATime ==
    [][\A u \in Users :
         Running(u) /\ relay'[u] = relay[u] /\ obs'[u] = obs[u] =>
           UNCHANGED <<chats, history, fsmState, fsmData>>]_vars

\* C8: when a user presses the button with data delete_all_chats, the
\* delete_all_chats handler runs: afterwards the user owns no chat and
\* no history row belongs to a chat the user owned.
C8_DeleteAllButton ==
    last.kind = "callback" /\ last.input = DeleteAllData =>
      /\ last.handler = "delete_all_chats"
      /\ get_chats(last.user) = {}
      /\ \A i \in 1..Len(history) : history[i].chat_id \notin last.owned

\* the texts that the filter of a handler names
Labels ==
    {CmdStart, CmdMenu, BtnNewChat, BtnMyChats, BtnCurrentChat, BtnExport, BtnSettings}

\* C9: the text message a user sends in state renaming_chat is handled by
\* rename_chat_finish: the title of the chat being renamed becomes the
\* first 30 characters of the text and the FSM state of the user is
\* cleared.  (Stated for the texts that are no command and no menu label.)
C9_RenameFinishes ==
    last.kind = "message" /\ last.state = "renaming_chat" /\ last.input \notin Labels =>
      /\ last.handler = "rename_chat_finish"
      /\ fsmState[last.user] = NoState
      /\ last.data.renaming_chat \in DOMAIN chats =>
           chats[last.data.renaming_chat].title = Prefix(last.input, TITLE_LEN)

-----------------------------------------------------------------------------
(* SpecCatalog: the catalog refresh beside the handlers that read the      *)
(* catalog.  The refresh task fetches any of the lists of the provider or  *)
(* fails, while user u1 starts chats and chooses models.                   *)

InitCatalog == InitWith({EmptyDb}, Fetches)

NextCatalog ==
    \/ \E text \in {BtnNewChat, Llama} :
         /\ OnMessage("u1", text, 1)
         /\ chatSeq' <= MaxChatsMenu
         /\ last' = Handled("message", "u1", text)
    \/ UpdateModelsCall
    \/ \E fetch \in Fetches : UpdateModelsDone(fetch)

SpecCatalog == InitCatalog /\ [][NextCatalog]_vars

\* C7: the refresh replaces the catalog wholesale: in every state, and so
\* whenever a handler reads it, the keys of MODELS are exactly the ids
\* ending in ":free" of the most recent completed fetch, each once (none
\* when the fetch failed); no entry of an older fetch survives and no
\* partly filled catalog is seen.
C7_CatalogIsLastFetch ==
    /\ Range(MODELS) =
         {id \in Range(lastFetch.data) : lastFetch.ok /\ id[Len(id)] = FreeTag}
    /\ \A i, j \in 1..Len(MODELS) : MODELS[i] = MODELS[j] => i = j

\* C7 witness: the user chose "llama" when it named M_A alone, and a later
\* refresh has put M_B, of the same name, before it
C7_Witness ==
    /\ fsmState["u1"] = "naming_chat"
    /\ fsmData["u1"].selected_model = M_A
    /\ MODELS = <<M_B, M_A>>
    /\ updater = "sleep"

-----------------------------------------------------------------------------
(* SpecMenu: the new-chat flow.  User u1 sends commands, menu labels,      *)
(* model names and free text, under every catalog the first fetch may      *)
(* have left; the chat transport does not answer, so that a turn of the    *)
(* relay stays at its first await.                                         *)

InitMenu == InitWith({EmptyDb}, Fetches)

MenuTexts == {CmdMenu, BtnNewChat, BtnBack, Llama, LlamaImg, LongText}

NextMenu ==
    \/ \E text \in MenuTexts :
         /\ OnMessage("u1", text, 1)
         /\ chatSeq' <= MaxChatsMenu
         /\ last' = Handled("message", "u1", text)

SpecMenu == InitMenu /\ [][NextMenu]_vars

\* texts that handlers registered before the state handlers take
TakenFirst == {CmdStart, CmdMenu, BtnNewChat}

Matching(catalog, text) ==
    {i \in 1..Len(catalog) : ShortName(catalog[i]) = RemoveToken(text, MultimodalSuffix)}

NewChats == DOMAIN chats' \ DOMAIN chats

Created(u, text) ==
    /\ DOMAIN chats \subseteq DOMAIN chats'
    /\ \A c \in DOMAIN chats : chats'[c] = chats[c]
    /\ Cardinality(NewChats) = 1
    /\ \A c \in NewChats :
         /\ chats'[c].user_id = u
         /\ chats'[c].model = fsmData[u].selected_model
         /\ chats'[c].title = Prefix(text, TITLE_LEN)
         /\ Len(chats'[c].title) <= TITLE_LEN
         /\ fsmData'[u].current_chat = c
    /\ fsmState'[u] = "waiting_for_message"

NewChatPressed(u) ==
    IF MODELS # <<>>
    THEN fsmState'[u] = "choosing_model"
    ELSE fsmState'[u] = fsmState[u]

Chosen(u, text) ==
    /\ fsmState'[u] = "naming_chat"
    /\ \E i \in Matching(MODELS, text) :
         /\ fsmData'[u].selected_model = MODELS[i]
         /\ \A j \in Matching(MODELS, text) : i <= j
    /\ chats' = chats

NotChosen(u) ==
    /\ fsmState'[u] = "choosing_model"
    /\ fsmData' = fsmData
    /\ chats' = chats

\* C10 as stated: the new-chat label moves to choosing_model from any state
\* when the catalog is not empty and changes no state when it is empty; in
\* choosing_model a text that names a catalog model (with or without the
\* multimodal suffix) moves to naming_chat with the model remembered, and
\* any other text leaves the user in choosing_model and creates nothing;
\* in naming_chat the next message creates exactly one chat of the sender
\* with the remembered model and a title of at most 30 characters, makes
\* it the current chat and moves to waiting_for_message.
C10_NewChatFlowAsStated ==
    [][\A u \in Users : \A text \in MenuTexts :
         last' = Handled("message", u, text) /\ OnMessage(u, text, 1) =>
           /\ text = BtnNewChat => NewChatPressed(u)
           /\ fsmState[u] = "choosing_model" /\ text # BtnNewChat =>
                IF Matching(MODELS, text) # {} THEN Chosen(u, text) ELSE NotChosen(u)
           /\ fsmState[u] = "naming_chat" => Created(u, text)]_vars

\* C10 as amended: as stated, but in naming_chat only a message that is
\* not "/start", "/menu" or the new-chat label creates the chat (these
\* three are taken by their own handlers, which are registered first), and
\* in choosing_model the back label is not among the texts that leave the
\* user there: it clears the state and the data.  A text names a model when
\* it is the short name once every multimodal suffix is removed from it,
\* and the model remembered is the first such model of the catalog.
C10_NewChatFlow ==
    [][\A u \in Users : \A text \in MenuTexts :
         last' = Handled("message", u, text) /\ OnMessage(u, text, 1) =>
           /\ text = BtnNewChat => NewChatPressed(u)
           /\ fsmState[u] = "choosing_model" /\ text \notin TakenFirst =>
                IF text = BtnBack
                THEN fsmState'[u] = NoState /\ fsmData'[u] = NoData /\ chats' = chats
                ELSE IF Matching(MODELS, text) # {} THEN Chosen(u, text) ELSE NotChosen(u)
           /\ fsmState[u] = "naming_chat" /\ text \notin TakenFirst => Created(u, text)]_vars

\* C10 witness: a chat was created from a text of more than 30 characters,
\* chosen by a model name with the multimodal suffix
C10_Witness ==
    /\ last.kind = "message" /\ last.state = "naming_chat" /\ last.input = LongText
    /\ fsmState["u1"] = "waiting_for_message"
    /\ fsmData["u1"].current_chat \in DOMAIN chats
    /\ Len(chats[fsmData["u1"].current_chat].title) = TITLE_LEN
    /\ chats[fsmData["u1"].current_chat].model = last.data.selected_model

-----------------------------------------------------------------------------
(* SpecFavorites: the favorites table.  Both users press the toggle       *)
(* buttons of the models that favorite_models_keyboard has shown them.     *)

FavModels == {M_A, M_B, M_P}

NextFavorites ==
    \E u \in Users, m \in FavModels :
      OnCallback(u, ToggleData(m)) /\ UNCHANGED last

SpecFavorites == InitWith({EmptyDb}, {[ok |-> TRUE, data |-> <<M_A, M_P>>]})
                   /\ [][NextFavorites]_vars

NoDuplicates(s) == \A i, j \in 1..Len(s) : s[i] = s[j] => i = j

\* C12: toggle_favorite flips the membership of exactly the pair (pressing
\* user, model id) in the favorites and changes no other pair; pressing
\* the same toggle once more gives the favorites set it started from; no
\* pair is stored twice; and two toggles by different users or for
\* different models give the same favorites set in either order.
C12_ToggleFlipsOnePair ==
    [][\A u \in Users, m \in FavModels :
         OnCallback(u, ToggleData(m)) =>
           LET pair == FavoriteRow(u, m)
           IN /\ pair \in Range(favorites') <=> pair \notin Range(favorites)
              /\ Range(favorites') \ {pair} = Range(favorites) \ {pair}
              /\ Range(toggle_rows(favorites', u, ToggleData(m))) = Range(favorites)
              /\ NoDuplicates(favorites')
              /\ \A v \in Users, n \in FavModels :
                   <<v, n>> # <<u, m>> =>
                     Range(toggle_rows(toggle_rows(favorites, u, ToggleData(m)),
                                       v, ToggleData(n)))
                       = Range(toggle_rows(toggle_rows(favorites, v, ToggleData(n)),
                                           u, ToggleData(m)))]_vars

\* C12 witness: after toggles of both users, user u1 has two favorites and
\* user u2 has one of the same two models, stored first
C12_Witness ==
    /\ get_favorites(favorites, "u1") = {M_A, M_B}
    /\ get_favorites(favorites, "u2") = {M_A}
    /\ favorites[1].user_id = "u2"

-----------------------------------------------------------------------------
(* SpecDelete: deleting chats.  User u1 lists, selects, renames and        *)
(* deletes the chats an earlier run left and writes to them, beside a      *)
(* chat of user u2; the provider refuses every request.                    *)

InitDelete == InitWith({Archive}, {[ok |-> TRUE, data |-> <<M_A, M_P>>]})

\* the buttons u has been shown, and a button whose id part is no number
DeleteButtons(u) == ChatButtons(keyboards[u]) \cup {DeleteAllData, <<"delete", "x">>}

NextDelete ==
    \/ \E text \in {BtnMyChats, Hi} :
         /\ OnMessage("u1", text, Len(history) + 1)
         /\ Len(history') <= MaxHistoryDelete
         /\ last' = Handled("message", "u1", text)
    \/ \E data \in DeleteButtons("u1") :
         OnCallback("u1", data) /\ last' = Handled("callback", "u1", data)
    \/ HM_Placeholder("u1")
    \/ HM_Create("u1", "RateLimitError")

SpecDelete == InitDelete /\ [][NextDelete]_vars

\* C11: pressing a delete_<id> button removes the chat row <id> and every
\* history row of chat <id> and leaves every other chat row, every history
\* row of another chat and the favorites as they are; data whose id part
\* is no integer changes no table.
C11_DeleteChatFrame ==
    [][\A u \in Users : \A data \in DeleteButtons(u) :
         /\ last' = Handled("callback", u, data)
         /\ OnCallback(u, data)
         /\ data[1] = "delete"
         => LET id == ParseInt(data[2])
            IN IF id = -1
               THEN UNCHANGED <<chats, history, favorites>>
               ELSE /\ DOMAIN chats' = DOMAIN chats \ {id}
                    /\ \A c \in DOMAIN chats' : chats'[c] = chats[c]
                    /\ history' = SelectSeq(history, LAMBDA r : r.chat_id # id)
                    /\ favorites' = favorites]_vars

\* C11 witness: chat 1 was deleted by its owner, with its rows, while rows
\* of other chats and a favorite were stored
C11_Witness ==
    /\ last.kind = "callback" /\ last.input = <<"delete", "1">>
    /\ 1 \in last.owned /\ 1 \notin DOMAIN chats
    /\ \E i \in 1..Len(history) : history[i].chat_id \in DOMAIN chats
    /\ favorites # <<>>

-----------------------------------------------------------------------------
(* SpecFlow: the conversation states.  User u1 starts and cancels chat     *)
(* creation, names chats, lists and selects them, asks to rename them and  *)
(* writes to them; the provider refuses every request.                     *)

InitFlow == InitWith({EmptyDb, ChatOf("u1")}, {[ok |-> TRUE, data |-> <<M_A, M_P>>]})

FlowTexts == {BtnNewChat, BtnBack, BtnMyChats, Llama}

FlowButtons(u) ==
    UNION {{<<"chat", Str(c)>>, <<"rename", Str(c)>>} : c \in keyboards[u]}

NextFlow ==
    \/ \E text \in FlowTexts :
         /\ OnMessage("u1", text, Len(history) + 1)
         /\ chatSeq' <= MaxChatsFlow
         /\ Len(history') <= MaxHistoryFlow
         /\ UNCHANGED last
    \/ \E data \in FlowButtons("u1") : OnCallback("u1", data) /\ UNCHANGED last
    \/ HM_Placeholder("u1")
    \/ HM_Create("u1", "RateLimitError")

SpecFlow == InitFlow /\ [][NextFlow]_vars

\* C16: a user in waiting_for_message has a current_chat in the FSM data
\* and a user in naming_chat has a selected_model, so handle_message never
\* answers that a chat has to be selected or created first, and chat_named
\* never misses the selected_model.
C16_FsmDataPresent ==
    \A u \in Users :
      /\ fsmState[u] = "waiting_for_message" => fsmData[u].current_chat # 0
      /\ fsmState[u] = "naming_chat" => fsmData[u].selected_model # NoModel
      /\ TextSelectFirst \notin Range(obs[u].statics)

\* C16 witness: a chat was created and named, and a message of the user to
\* it was stored and refused
C16_Witness ==
    /\ fsmState["u1"] = "waiting_for_message"
    /\ fsmData["u1"].current_chat = MaxChatsFlow
    /\ fsmData["u1"].renaming_chat = 0
    /\ obs["u1"].userRows = 1 /\ obs["u1"].raised = "RateLimitError"
    /\ history[Len(history)].chat_id = MaxChatsFlow

-----------------------------------------------------------------------------
(* SpecRelay: the relay of SpecStream to its end.  Every await of          *)
(* handle_message returns: the provider answers the request, the stream    *)
(* delivers its chunks and ends or fails, and the calls of the chat        *)
(* transport return or raise.                                              *)

RelayStep(u) ==
    \/ HM_Placeholder(u)
    \/ \E result \in {"stream"} \cup ProviderErrors : HM_Create(u, result)
    \/ \E delta \in Deltas : obs[u].chunks < MaxChunks /\ HM_Chunk(u, delta)
    \/ \E result \in {"ok"} \cup EditErrors : HM_EditDone(u, result)
    \/ \E e \in ProviderErrors : HM_StreamError(u, e)
    \/ HM_StreamEnd(u)
    \/ \E result \in {"ok"} \cup EditErrors : HM_Final(u, result, Len(history) + 1)

SpecRelay == InitStream /\ [][NextStream]_vars /\ WF_vars(RelayStep("u1"))

\* (a) the last edit had the full answer without the cursor, and one
\* assistant row with the deltas in arrival order was stored, with no
\* static text
Answered(u) ==
    /\ obs[u].stored = 1
    /\ obs[u].statics = <<>>
    /\ obs[u].editText = obs[u].answer
    /\ Cursor \notin Range(obs[u].editText)
    /\ Message(history[Len(history)]) = [role |-> "assistant", content |-> obs[u].answer]

\* (b) one static text and no assistant row
Refused(u) == obs[u].stored = 0 /\ Len(obs[u].statics) = 1

C14_RequestIsWindowThenMessage ==
    [][\A u \in Users :
         relay[u].pc = "idle" /\ relay'[u].pc = "placeholder" =>
           /\ relay'[u].messages =
                TrailingWindow(history, relay'[u].chat_id, HISTORY_LIMIT)
                  \o <<[role |-> "user", content |-> relay'[u].content]>>
           /\ Len(relay'[u].messages) <= HISTORY_LIMIT + 1]_vars

\* C15: every history row refers to a chat row that exists; in particular
\* a message sent while current_chat names a deleted chat, or a chat of
\* another user, stores no row.
C15_HistoryRefersToChats ==
    /\ \A i \in 1..Len(history) : history[i].chat_id \in DOMAIN chats
    /\ \A u \in Users : TextNotFound \in Range(obs[u].statics) => obs[u].userRows = 0

-----------------------------------------------------------------------------
(* SpecCancel: cancelling chat creation.  User u1 selects the chat an      *)
(* earlier run left and writes to it, presses the new-chat label only      *)
(* while in the conversation, and presses the back label only while        *)
(* choosing a model; the provider answers with an empty stream.            *)

NextCancel ==
    \/ \E text \in {BtnMyChats, Hi} :
         /\ OnMessage("u1", text, Len(history) + 1)
         /\ Len(history') <= MaxHistoryCancel
         /\ last' = Handled("message", "u1", text)
    \/ /\ fsmState["u1"] = "waiting_for_message"
       /\ OnMessage("u1", BtnNewChat, Len(history) + 1)
       /\ last' = Handled("message", "u1", BtnNewChat)
    \/ /\ fsmState["u1"] = "choosing_model"
       /\ OnMessage("u1", BtnBack, Len(history) + 1)
       /\ last' = Handled("message", "u1", BtnBack)
    \/ \E data \in {<<"chat", Str(c)>> : c \in keyboards["u1"]} :
         OnCallback("u1", data) /\ last' = Handled("callback", "u1", data)
    \/ HM_Placeholder("u1")
    \/ HM_Create("u1", "stream")
    \/ HM_StreamEnd("u1")
    \/ HM_Final("u1", "ok", Len(history) + 1)

SpecCancel == InitStream /\ [][NextCancel]_vars

\* C17: when a user in waiting_for_message with current chat c has pressed
\* the new-chat label and then the back label, the user is again in
\* waiting_for_message with current chat c, so that the next text message
\* is handled by handle_message and relayed for chat c.
C17_CancelRestoresChat ==
    last.kind = "message" /\ last.input = BtnBack /\ last.state = "choosing_model" =>
      /\ fsmState[last.user] = "waiting_for_message"
      /\ fsmData[last.user].current_chat = last.data.current_chat
      /\ RouteMessage(Hi, fsmState[last.user]) = "handle_message"

====
